---- MODULE Spec2Model ----
(***************************************************************************)
(* MicroCloud charm (src/src/charm.py): the peer-coordination protocol.    *)
(* Every unit runs the same charm; units talk only through the peer        *)
(* relation "cluster", whose per-unit data bag each unit reads through a   *)
(* local, possibly stale copy.  Handlers are atomic per unit (one hook at  *)
(* a time); the external tools (lxc, microcloud, microceph, microovn) are  *)
(* opaque: each call returns ok, a non-zero exit, or a timeout.            *)
(*                                                                         *)
(* Two units (Acting) run every handler of the charm.  The third unit is   *)
(* followed only as far as the others need it to form a quorum: it enters  *)
(* the relation and runs relation-created.                                 *)
(* unit.status is a sink no handler reads: it is recorded as part of the   *)
(* evaluation that sets it.                                                *)
(***************************************************************************)
EXTENDS Naturals, Sequences, FiniteSets

\* The units of the application (three: the smallest group in which a
\* leader can see "some but not all" of its peers).
Units == {"u0", "u1", "u2"}

\* The units whose handler evaluations are followed step by step.
Acting == {"u0", "u1"}

\* How many times leadership may move during a behaviour.
MaxLeaderChanges == 1

VARIABLES
    leader,         \* the unit for which unit.is_leader() is true
    leaderChanges,  \* number of leadership moves so far
    planned,        \* app.planned_units()
    data,           \* data[u][b]: unit u's copy of bag b's "clustered" key
                    \*   "absent": b is not in u's peers.units
                    \*   "unset" : b is visible, the key is not set
                    \*   "False" / "True"
                    \* data[u][u] is u's own bag (the authoritative value)
    member,         \* member[u]: how u became a member of the LXD cluster
                    \*   "no"      : not a member
                    \*   "init"    : its own "microcloud init --auto" returned 0
                    \*   "enrolled": taken in by another unit's init
                    \*   "added"   : taken in by the leader's "microcloud add"
    ev,             \* the handler evaluation that has just completed
                    \* (NoEvent between hooks)
    stored,         \* stored[u]: _stored.config of unit u, a function from
                    \* option names to the values last applied
    status,         \* status[u]: the kind of unit.status of unit u
    pending         \* pending[u]: a start event is queued for unit u (not
                    \* delivered yet, or deferred by the handler)

vars == <<leader, leaderChanges, planned, data, member, ev,
          stored, status, pending>>

OwnValues == {"unset", "False", "True"}

-----------------------------------------------------------------------------
(* Peer data accessors *)

\* self.peers.units as seen by u
peers_units(u) == {v \in Units \ {u} : data[u][v] # "absent"}

\* self.peers.data[bag].get("clustered", "") as read by u
get_peer_data_str(d, u, bag) ==
    IF d[u][bag] \in {"absent", "unset"} THEN "" ELSE d[u][bag]

\* self.peers.data[bag]["clustered"] = value, unless already equal
set_peer_data_str(d, u, bag, value) ==
    IF get_peer_data_str(d, u, bag) # value
    THEN [d EXCEPT ![u][bag] = value]
    ELSE d

\* the set_peer_data_str calls of one handler evaluation, applied in order
RECURSIVE ApplySets(_, _, _)
ApplySets(d, u, sets) ==
    IF sets = << >> THEN d
    ELSE ApplySets(set_peer_data_str(d, u, sets[1].bag, sets[1].value),
                   u, Tail(sets))

-----------------------------------------------------------------------------
(* Status helpers *)

unit_active == "Active"
unit_blocked == "Blocked"
unit_maintenance == "Maintenance"
unit_waiting == "Waiting"
\* the handler did not assign unit.status
StatusKept == "unchanged"

\* The message of the status a handler leaves: its text and, for the
\* messages formatted with the command that failed, that command.
Message(text, cmd) == [text |-> text, cmd |-> cmd]
\* ActiveStatus() carries no message; an unassigned status has none either
NoMessage == Message("", "-")
\* f'Failed to run "{e.cmd}": {e.stderr} ({e.returncode})'
FailedToRun(cmd) == Message("Failed to run", cmd)
\* f'Timeout exceeded while running "{e.cmd}"'
TimeoutExceeded(cmd) == Message("Timeout exceeded while running", cmd)

-----------------------------------------------------------------------------
(* External tool outcomes *)

ToolOutcomes == {"ok", "fail", "timeout"}

\* "lxc cluster list" exits 0 only on a member of a cluster
ProbeOutcomes(u) ==
    IF member[u] # "no" THEN ToolOutcomes ELSE {"fail", "timeout"}

\* microcloud_init: "microcloud init --auto" then "microceph enable rgw"
InitOutcomes == {"ok", "initFail", "initTimeout", "rgwFail", "rgwTimeout"}

\* microcloud_init that raises RuntimeError whatever its commands return
microcloud_init_always_raises(tool) ==
    [cmds   |-> IF tool \in {"initFail", "initTimeout"}
                THEN <<"microcloud_init">>
                ELSE <<"microcloud_init", "microceph_enable_rgw">>,
     raised |-> TRUE,
     status |-> unit_blocked,
     msg    |-> FailedToRun("microcloud_init")]

\* the commands microcloud_init issues and whether it raises RuntimeError
microcloud_init(tool) ==
    [cmds   |-> IF tool \in {"initFail", "initTimeout"}
                THEN <<"microcloud_init">>
                ELSE <<"microcloud_init", "microceph_enable_rgw">>,
     raised |-> tool # "ok",
     status |-> IF tool = "ok" THEN unit_maintenance ELSE unit_blocked,
     msg    |-> CASE tool = "ok" -> Message("Initializing MicroCloud", "-")
                  [] tool = "initFail" -> FailedToRun("microcloud_init")
                  [] tool = "initTimeout" -> TimeoutExceeded("microcloud_init")
                  [] tool = "rgwFail" -> FailedToRun("microceph_enable_rgw")
                  [] OTHER -> TimeoutExceeded("microceph_enable_rgw")]

\* microcloud_add: "microcloud add --auto"
microcloud_add(tool) ==
    [cmds   |-> <<"microcloud_add">>,
     raised |-> tool # "ok",
     status |-> IF tool = "ok" THEN unit_maintenance ELSE unit_blocked,
     msg    |-> CASE tool = "ok" -> Message("Adding node to MicroCloud", "-")
                  [] tool = "fail" -> FailedToRun("microcloud_add")
                  [] OTHER -> TimeoutExceeded("microcloud_add")]

-----------------------------------------------------------------------------
(* What a handler evaluation does: the commands it issues (in order), its  *)
(* set_peer_data_str calls (in order), the status it leaves and its        *)
(* message, whether it called event.defer(), and whether an exception left *)
(* the handler.                                                            *)

Result(cmds, sets, st, msg, defer, raised) ==
    [cmds |-> cmds, sets |-> sets, status |-> st, msg |-> msg,
     defer |-> defer, raised |-> raised]

Healthy == NoMessage
NotJoinedYet == Message("This unit has not joined the cluster yet", "-")
ProbeTimedOut ==
    Message("This unit timed out checking its clustered status", "-")
InitFailed == Message("Failed to initialize MicroCloud", "-")
FailedToJoin == Message("This unit has failed to join the cluster", "-")
\* the two messages of the wait that ends _on_charm_start
WaitMessage(u) ==
    IF leader = u
    THEN Message("Leader needs to wait for all units to be ready to bootstrap",
                 "-")
    ELSE Message("Unit needs to wait for all units to be ready to bootstrap",
                 "-")

SetCall(bag, value) == [bag |-> bag, value |-> value]

\* _on_charm_start: some peer's flag reads "True"
one_unit_clustered(u) == \E v \in peers_units(u) : data[u][v] = "True"

\* the guard without its planned_units() conjunct
should_initialize_no_quorum(u) ==
    /\ leader = u
    /\ get_peer_data_str(data, u, u) = "False"
    /\ \A v \in peers_units(u) : data[u][v] = "False"

\* the guard without its own-flag conjunct
should_initialize_any_own(u) ==
    /\ leader = u
    /\ \A v \in peers_units(u) : data[u][v] = "False"
    /\ planned = Cardinality(peers_units(u)) + 1

\* the guard without its is_leader() conjunct
should_initialize_any_unit(u) ==
    /\ get_peer_data_str(data, u, u) = "False"
    /\ \A v \in peers_units(u) : data[u][v] = "False"
    /\ planned = Cardinality(peers_units(u)) + 1

\* _on_charm_start: the guard of the initialization branch
should_initialize(u) ==
    /\ leader = u
    /\ get_peer_data_str(data, u, u) = "False"
    /\ \A v \in peers_units(u) : data[u][v] = "False"
    /\ planned = Cardinality(peers_units(u)) + 1

\* _on_cluster_relation_created
relation_created_result(u) ==
    Result(<< >>, <<SetCall(u, "False")>>, StatusKept, NoMessage, FALSE, FALSE)

\* _on_charm_start in which a probe that does not succeed falls through to
\* the initialization of a leader that is not clustered yet
start_result_fallthrough(u, pre, probe, tool) ==
    LET preDefer == (pre = "installFailed")
    IN  IF one_unit_clustered(u) /\ probe = "ok"
        THEN Result(<<"lxc_cluster_list">>, <<SetCall(u, "True")>>,
                    unit_active, Healthy, preDefer, FALSE)
        ELSE IF leader = u /\ get_peer_data_str(data, u, u) = "False"
                /\ planned = Cardinality(peers_units(u)) + 1
        THEN LET r == microcloud_init(tool)
             IN  IF ~r.raised
                 THEN Result(r.cmds, <<SetCall(u, "True")>>,
                             unit_active, Healthy, preDefer, FALSE)
                 ELSE Result(r.cmds, << >>, unit_blocked, InitFailed,
                             preDefer, FALSE)
        ELSE Result(<< >>, << >>, unit_waiting, WaitMessage(u), TRUE, FALSE)

\* _on_charm_start in which a successful initialization also marks a peer
\* it has enrolled as clustered
start_result_marks_peers(u, pre, probe, tool) ==
    LET preDefer == (pre = "installFailed")
    IN  IF one_unit_clustered(u)
        THEN CASE probe = "ok" ->
                    Result(<<"lxc_cluster_list">>, <<SetCall(u, "True")>>,
                           unit_active, Healthy, preDefer, FALSE)
               [] probe = "fail" ->
                    Result(<<"lxc_cluster_list">>, << >>,
                           unit_waiting, NotJoinedYet, TRUE, FALSE)
               [] OTHER ->
                    Result(<<"lxc_cluster_list">>, << >>,
                           unit_blocked, ProbeTimedOut, preDefer, FALSE)
        ELSE IF should_initialize(u)
        THEN LET r == microcloud_init(tool)
                 peer == CHOOSE v \in peers_units(u) : TRUE
             IN  IF ~r.raised
                 THEN Result(r.cmds,
                             <<SetCall(u, "True"), SetCall(peer, "True")>>,
                             unit_active, Healthy, preDefer, FALSE)
                 ELSE Result(r.cmds, << >>, unit_blocked, InitFailed,
                             preDefer, FALSE)
        ELSE Result(<< >>, << >>, unit_waiting, WaitMessage(u), TRUE, FALSE)

\* _on_charm_start whose final wait does not defer the event
start_result_no_defer(u, pre, probe, tool) ==
    LET preDefer == (pre = "installFailed")
    IN  IF one_unit_clustered(u)
        THEN CASE probe = "ok" ->
                    Result(<<"lxc_cluster_list">>, <<SetCall(u, "True")>>,
                           unit_active, Healthy, preDefer, FALSE)
               [] probe = "fail" ->
                    Result(<<"lxc_cluster_list">>, << >>,
                           unit_waiting, NotJoinedYet, TRUE, FALSE)
               [] OTHER ->
                    Result(<<"lxc_cluster_list">>, << >>,
                           unit_blocked, ProbeTimedOut, preDefer, FALSE)
        ELSE IF should_initialize(u)
        THEN LET r == microcloud_init(tool)
             IN  IF ~r.raised
                 THEN Result(r.cmds, <<SetCall(u, "True")>>,
                             unit_active, Healthy, preDefer, FALSE)
                 ELSE Result(r.cmds, << >>, unit_blocked, InitFailed,
                             preDefer, FALSE)
        ELSE Result(<< >>, << >>, unit_waiting, WaitMessage(u), preDefer,
                    FALSE)

\* _on_charm_start.  pre: outcome of the pending-config step
\* (_on_charm_config_changed, which defers the event when the snap
\* installation fails and then lets the handler go on); probe: what
\* "lxc cluster list" returns; tool: what microcloud_init's commands return.
start_result(u, pre, probe, tool) ==
    LET preDefer == (pre = "installFailed")
    IN  IF one_unit_clustered(u)
        THEN CASE probe = "ok" ->
                    Result(<<"lxc_cluster_list">>, <<SetCall(u, "True")>>,
                           unit_active, Healthy, preDefer, FALSE)
               [] probe = "fail" ->
                    Result(<<"lxc_cluster_list">>, << >>,
                           unit_waiting, NotJoinedYet, TRUE, FALSE)
               [] OTHER ->
                    Result(<<"lxc_cluster_list">>, << >>,
                           unit_blocked, ProbeTimedOut, preDefer, FALSE)
        ELSE IF should_initialize(u)
        THEN LET r == microcloud_init(tool)
             IN  IF ~r.raised
                 THEN Result(r.cmds, <<SetCall(u, "True")>>,
                             unit_active, Healthy, preDefer, FALSE)
                 ELSE Result(r.cmds, << >>, unit_blocked, InitFailed,
                             preDefer, FALSE)
        ELSE Result(<< >>, << >>, unit_waiting, WaitMessage(u), TRUE, FALSE)

\* _on_update_status in which a probe that does not succeed resets the flag
update_status_result_clears_flag(u, probe) ==
    IF probe = "ok"
    THEN Result(<<"lxc_cluster_list">>, <<SetCall(u, "True")>>,
                unit_active, Healthy, FALSE, FALSE)
    ELSE Result(<<"lxc_cluster_list">>, <<SetCall(u, "False")>>, unit_blocked,
                IF probe = "fail" THEN FailedToJoin ELSE ProbeTimedOut,
                FALSE, FALSE)

\* _on_update_status
update_status_result(u, probe) ==
    IF probe = "ok"
    THEN Result(<<"lxc_cluster_list">>, <<SetCall(u, "True")>>,
                unit_active, Healthy, FALSE, FALSE)
    ELSE Result(<<"lxc_cluster_list">>, << >>, unit_blocked,
                IF probe = "fail" THEN FailedToJoin ELSE ProbeTimedOut,
                FALSE, FALSE)

\* _on_cluster_relation_joined in which the leader records the unit it has
\* added as clustered
relation_joined_result_bookkeeping(u, v, tool) ==
    IF leader = u /\ get_peer_data_str(data, u, u) = "True" /\ v # u
    THEN LET r == microcloud_add(tool)
         IN  Result(r.cmds,
                    IF r.raised THEN << >> ELSE <<SetCall(v, "True")>>,
                    r.status, r.msg, FALSE, FALSE)
    ELSE Result(<< >>, << >>, StatusKept, NoMessage, FALSE, FALSE)

\* _on_cluster_relation_joined without its is_leader() conjunct
relation_joined_result_any_unit(u, v, tool) ==
    IF get_peer_data_str(data, u, u) = "True" /\ v # u
    THEN LET r == microcloud_add(tool)
         IN  Result(r.cmds, << >>, r.status, r.msg, FALSE, FALSE)
    ELSE Result(<< >>, << >>, StatusKept, NoMessage, FALSE, FALSE)

\* _on_cluster_relation_joined, event.unit = v
relation_joined_result(u, v, tool) ==
    IF leader = u /\ get_peer_data_str(data, u, u) = "True" /\ v # u
    THEN LET r == microcloud_add(tool)
         IN  Result(r.cmds, << >>, r.status, r.msg, FALSE, FALSE)
    ELSE Result(<< >>, << >>, StatusKept, NoMessage, FALSE, FALSE)

\* microcloud_remove: the removal commands, in the order the code runs them;
\* ceph / ovn: _stored.config["snap-channel-microceph"] / [...-microovn"]
\* is a non-empty string
RemovalSteps(ceph, ovn) ==
    <<"lxc_cluster_remove">>
    \o (IF ceph THEN <<"microceph_cluster_remove">> ELSE << >>)
    \o (IF ovn THEN <<"microovn_cluster_remove">> ELSE << >>)
    \o <<"microcloud_cluster_remove">>

InventoryOutcomes == {"atSelf", "elsewhere", "unparsable"}

\* the two ways a removal command fails
FailureKinds == {"fail", "timeout"}

ContainsInstances ==
    Message("This Microcloud unit contains instances. You can't remove it.",
            "-")
Removing == Message("Removing node from MicroCloud", "-")

\* the status message of a removal command that failed
RemovalFailure(cmd, kind) ==
    IF kind = "fail" THEN FailedToRun(cmd) ELSE TimeoutExceeded(cmd)

\* microcloud_remove without the return that follows the refusal
microcloud_remove_no_return(u, inv, ceph, ovn, nOk, kind) ==
    LET steps == RemovalSteps(ceph, ovn)
    IN  CASE inv = "unparsable" ->
               [cmds |-> <<"lxc_list">>, status |-> StatusKept,
                msg |-> NoMessage, raised |-> "other"]
          [] OTHER ->
               IF nOk < Len(steps)
               THEN [cmds |-> <<"lxc_list">> \o SubSeq(steps, 1, nOk + 1),
                     status |-> unit_blocked,
                     msg |-> RemovalFailure(steps[nOk + 1], kind),
                     raised |-> "RuntimeError"]
               ELSE [cmds |-> <<"lxc_list">> \o steps,
                     status |-> unit_maintenance, msg |-> Removing,
                     raised |-> "no"]

\* microcloud_remove that runs the remaining commands after one has failed
microcloud_remove_continues(u, inv, ceph, ovn, nOk, kind) ==
    LET steps == RemovalSteps(ceph, ovn)
    IN  CASE inv = "unparsable" ->
               [cmds |-> <<"lxc_list">>, status |-> StatusKept,
                msg |-> NoMessage, raised |-> "other"]
          [] inv = "atSelf" ->
               [cmds |-> <<"lxc_list">>, status |-> unit_blocked,
                msg |-> ContainsInstances, raised |-> "no"]
          [] OTHER ->
               IF nOk < Len(steps)
               THEN [cmds |-> <<"lxc_list">> \o steps,
                     status |-> unit_blocked,
                     msg |-> RemovalFailure(steps[nOk + 1], kind),
                     raised |-> "RuntimeError"]
               ELSE [cmds |-> <<"lxc_list">> \o steps,
                     status |-> unit_maintenance, msg |-> Removing,
                     raised |-> "no"]

\* microcloud_remove.  inv: what "lxc list --all-projects --format=json"
\* yields (an instance located on this node, none, or output json.loads
\* rejects); nOk: how many removal commands succeed before one fails;
\* kind: how that one fails.  raised: "no" / "RuntimeError" / "other"
microcloud_remove(u, inv, ceph, ovn, nOk, kind) ==
    LET steps == RemovalSteps(ceph, ovn)
    IN  CASE inv = "unparsable" ->
               [cmds |-> <<"lxc_list">>, status |-> StatusKept,
                msg |-> NoMessage, raised |-> "other"]
          [] inv = "atSelf" ->
               [cmds |-> <<"lxc_list">>, status |-> unit_blocked,
                msg |-> ContainsInstances, raised |-> "no"]
          [] OTHER ->
               IF nOk < Len(steps)
               THEN [cmds |-> <<"lxc_list">> \o SubSeq(steps, 1, nOk + 1),
                     status |-> unit_blocked,
                     msg |-> RemovalFailure(steps[nOk + 1], kind),
                     raised |-> "RuntimeError"]
               ELSE [cmds |-> <<"lxc_list">> \o steps,
                     status |-> unit_maintenance, msg |-> Removing,
                     raised |-> "no"]

\* _on_charm_stop without the test of the member's own flag
stop_result_unguarded(u, inv, ceph, ovn, nOk, kind) ==
    LET r == microcloud_remove(u, inv, ceph, ovn, nOk, kind)
    IN  Result(r.cmds, << >>, r.status, r.msg, FALSE, r.raised = "other")

\* _on_charm_stop
stop_result(u, inv, ceph, ovn, nOk, kind) ==
    IF get_peer_data_str(data, u, u) = "True"
    THEN LET r == microcloud_remove(u, inv, ceph, ovn, nOk, kind)
         IN  Result(r.cmds, << >>, r.status, r.msg, FALSE,
                    r.raised = "other")
    ELSE Result(<< >>, << >>, StatusKept, NoMessage, FALSE, FALSE)

-----------------------------------------------------------------------------
(* The record of the last evaluation: the handler, the unit, what the      *)
(* handler read (in) and what it did (out).                                *)

NoInput == "-"

\* an empty dict: _stored.config before any installation, and the config
\* fields of an evaluation that reads no configuration
NoConfig == [k \in {} |-> NoInput]

\* what the removal read and met: the stored channels and the outcome of
\* the removal commands
Removal(ceph, ovn, nOk, kind) ==
    [ceph |-> ceph, ovn |-> ovn, nOk |-> nOk, kind |-> kind]

NoRemoval == Removal(FALSE, FALSE, 0, NoInput)

\* microceph, microovn: self.config["microceph"], self.config["microovn"]
\* ("enabled" / "disabled") as they stand when microcloud_init runs and
\* when a removal has run to its end; rm: see Removal
\* config, old: self.config and _stored.config as _on_charm_config_changed
\* reads them
Inputs(u, pre, probe, tool, inv, microceph, microovn, rm, config, old) ==
    [lead     |-> (leader = u),
     own      |-> get_peer_data_str(data, u, u),
     peerTrue |-> one_unit_clustered(u),
     peerFalse|-> \A v \in peers_units(u) : data[u][v] = "False",
     npeers   |-> Cardinality(peers_units(u)),
     pre      |-> pre,
     probe    |-> probe,
     tool     |-> tool,
     inv      |-> inv,
     microceph|-> microceph,
     microovn |-> microovn,
     rm       |-> rm,
     config   |-> config,
     old      |-> old]

Event(h, u, arg, in, out) ==
    [h |-> h, u |-> u, arg |-> arg, in |-> in, out |-> out]

NoEvent ==
    Event("none", "-", "-",
          [lead |-> FALSE, own |-> "", peerTrue |-> FALSE, peerFalse |-> TRUE,
           npeers |-> 0, pre |-> NoInput, probe |-> NoInput,
           tool |-> NoInput, inv |-> NoInput, microceph |-> NoInput,
           microovn |-> NoInput, rm |-> NoRemoval, config |-> NoConfig,
           old |-> NoConfig],
          Result(<< >>, << >>, StatusKept, NoMessage, FALSE, FALSE))

-----------------------------------------------------------------------------
Init ==
    /\ leader = "u0"
    /\ leaderChanges = 0
    /\ planned = Cardinality(Acting)
    /\ data = [u \in Units |->
                 [b \in Units |-> IF b = u THEN "unset" ELSE "absent"]]
    /\ member = [u \in Acting |-> "no"]
    /\ ev = NoEvent
    /\ stored = [u \in Acting |-> NoConfig]
    /\ status = [u \in Acting |-> unit_maintenance]
    /\ pending = [u \in Acting |-> TRUE]

\* The hook that ran the handler ends; the next event may be dispatched.
HookEnds ==
    /\ ev # NoEvent
    /\ ev' = NoEvent
    /\ UNCHANGED <<leader, leaderChanges, planned, data, member>>

\* The order in which leadership moves (the leadership oracle is external;
\* the units run the same code, so the order of the names is immaterial).
NextLeader(u) == CASE u = "u0" -> "u1" [] u = "u1" -> "u2" [] OTHER -> "u0"

LeaderChange ==
    /\ ev = NoEvent
    /\ leaderChanges < MaxLeaderChanges
    /\ leader' = NextLeader(leader)
    /\ leaderChanges' = leaderChanges + 1
    /\ UNCHANGED <<planned, data, member, ev>>

\* Unit v's own value reaches unit u's copy of v's bag.
Propagate(u, v) ==
    /\ ev = NoEvent
    /\ u # v
    /\ data[u][v] # "absent"
    /\ data[u][v] # data[v][v]
    /\ data' = [data EXCEPT ![u][v] = data[v][v]]
    /\ UNCHANGED <<leader, leaderChanges, planned, member, ev>>

\* The application is scaled up by one unit (juju add-unit).
ScaleUp ==
    /\ ev = NoEvent
    /\ planned < Cardinality(Units)
    /\ planned' = planned + 1
    /\ UNCHANGED <<leader, leaderChanges, data, member, ev>>

\* the commands of a result, as a set
Issued(r) == {r.cmds[i] : i \in DOMAIN r.cmds}

\* the units a successful cluster-forming command takes in
Enrol(m, us, how) ==
    [u \in Acting |-> IF u \in us /\ m[u] = "no" THEN how ELSE m[u]]

on_cluster_relation_created(u) ==
    /\ ev = NoEvent
    /\ LET r == relation_created_result(u)
       IN  /\ data' = ApplySets(data, u, r.sets)
           /\ ev' = Event("relation_created", u, "-",
                          Inputs(u, NoInput, NoInput, NoInput, NoInput,
                                 NoInput, NoInput, NoRemoval, NoConfig,
                                 NoConfig), r)
    /\ UNCHANGED <<leader, leaderChanges, planned, member>>

on_charm_start(u) ==
    /\ ev = NoEvent
    /\ \E pre \in {"ok", "installFailed"}, probe \in ProbeOutcomes(u),
          tool \in InitOutcomes, joiners \in {{}, peers_units(u)},
          microceph \in {"enabled", "disabled"} :
        LET r == start_result(u, pre, probe, tool)
            ran == "microcloud_init" \in Issued(r)
            formed == ran /\ tool \notin {"initFail", "initTimeout"}
        IN  /\ ~ran => (tool = "ok" /\ microceph = "enabled")
            /\ ~formed => joiners = {}
            /\ data' = ApplySets(data, u, r.sets)
            /\ member' = IF formed
                         THEN [Enrol(member, joiners, "enrolled")
                                 EXCEPT ![u] = "init"]
                         ELSE member
            /\ ev' = Event("start", u, "-",
                           Inputs(u, pre, probe,
                                  IF ran THEN tool ELSE NoInput, NoInput,
                                  IF ran THEN microceph ELSE NoInput,
                                  NoInput, NoRemoval, NoConfig, NoConfig),
                           r)
    /\ UNCHANGED <<leader, leaderChanges, planned>>

on_update_status(u) ==
    /\ ev = NoEvent
    /\ \E probe \in ProbeOutcomes(u) :
        LET r == update_status_result(u, probe)
        IN  /\ data' = ApplySets(data, u, r.sets)
            /\ ev' = Event("update_status", u, "-",
                           Inputs(u, NoInput, probe, NoInput, NoInput,
                                  NoInput, NoInput, NoRemoval, NoConfig,
                                  NoConfig), r)
    /\ UNCHANGED <<leader, leaderChanges, planned, member>>

\* Unit v enters the relation as seen by u: v becomes visible to u (with
\* no data yet) and relation-joined is delivered to u.  A unit sees no
\* more peers than the application has planned.
on_cluster_relation_joined(u, v) ==
    /\ ev = NoEvent
    /\ u # v
    /\ data[u][v] = "absent"
    /\ Cardinality(peers_units(u)) + 1 < planned
    /\ \E tool \in ToolOutcomes, joiners \in {{}, {v}} :
        LET seen == [data EXCEPT ![u][v] = "unset"]
            r == relation_joined_result(u, v, tool)
            ran == r.cmds # << >>
            okay == ran /\ tool = "ok"
        IN  /\ ~ran => tool = "ok"
            /\ ~okay => joiners = {}
            /\ data' = ApplySets(seen, u, r.sets)
            /\ member' = Enrol(member, joiners, "added")
            /\ ev' = Event("relation_joined", u, v,
                           Inputs(u, NoInput, NoInput,
                                  IF ran THEN tool ELSE NoInput, NoInput,
                                  NoInput, NoInput, NoRemoval, NoConfig,
                                  NoConfig), r)
    /\ UNCHANGED <<leader, leaderChanges, planned>>

on_charm_stop(u) ==
    /\ ev = NoEvent
    /\ \E inv \in InventoryOutcomes, ceph \in BOOLEAN, ovn \in BOOLEAN,
          kind \in FailureKinds, microceph \in {"enabled", "disabled"},
          microovn \in {"enabled", "disabled"} :
        \E nOk \in 0..Len(RemovalSteps(ceph, ovn)) :
          LET r == stop_result(u, inv, ceph, ovn, nOk, kind)
              removing == Len(r.cmds) > 1
              failed == removing /\ nOk < Len(RemovalSteps(ceph, ovn))
              complete == removing /\ ~failed
          IN  /\ ~removing => (~ceph /\ ~ovn /\ nOk = 0)
              /\ ~complete => (microceph = "enabled" /\ microovn = "enabled")
              /\ ~failed => kind = "fail"
              /\ data' = ApplySets(data, u, r.sets)
              /\ member' = IF removing /\ nOk > 0
                           THEN [member EXCEPT ![u] = "no"]
                           ELSE member
              /\ ev' = Event("stop", u, "-",
                             Inputs(u, NoInput, NoInput, NoInput, inv,
                                    IF complete THEN microceph ELSE NoInput,
                                    IF complete THEN microovn ELSE NoInput,
                                    IF removing
                                    THEN Removal(ceph, ovn, nOk,
                                                 IF failed THEN kind
                                                 ELSE NoInput)
                                    ELSE NoRemoval, NoConfig, NoConfig),
                             r)
    /\ UNCHANGED <<leader, leaderChanges, planned>>

-----------------------------------------------------------------------------
(* Configuration: the charm options and the snapshot _stored.config of the *)
(* values last applied.                                                    *)

ChannelKeys == {"snap-channel-lxd", "snap-channel-microcloud",
                "snap-channel-microceph", "snap-channel-microovn"}
ToggleKeys == {"microceph", "microovn"}
ConfigKeys == ChannelKeys \cup ToggleKeys

\* two channels an option may name
Channels == {"stable", "edge"}
Toggles == {"enabled", "disabled"}

\* self.config: every option has a value
Configs ==
    {c \in [ConfigKeys -> Channels \cup Toggles] :
        /\ \A k \in ChannelKeys : c[k] \in Channels
        /\ \A k \in ToggleKeys : c[k] \in Toggles}

\* config_changed: the options whose value is not the stored one
config_changed(config, old) ==
    {k \in DOMAIN config : k \notin DOMAIN old \/ config[k] # old[k]}

\* what snap_install_microcloud can meet: every snap operation succeeds, a
\* snap operation raises SnapError, or (microceph enabled) the rm / ln
\* command on /etc/ceph exits non-zero or times out
InstallOutcomes(config) ==
    {"ok", "snapError"}
    \cup (IF config["microceph"] = "enabled" THEN {"linkFail"} ELSE {})

SnapInstallFailed ==
    Message("An exception occurred when installing snap packages", "-")
FailedToApply ==
    Message("Failed to apply some configuration change(s)", "-")

\* snap_install_microcloud: the snapshot it leaves, the status it sets and
\* what it raises ("no" / "RuntimeError" / "other")
snap_install_microcloud(config, old, outcome) ==
    [stored |-> IF outcome = "ok"
                THEN [k \in DOMAIN old \cup ChannelKeys |->
                        IF k \in ChannelKeys THEN config[k] ELSE old[k]]
                ELSE old,
     status |-> IF outcome = "snapError" THEN unit_blocked ELSE StatusKept,
     msg    |-> IF outcome = "snapError" THEN SnapInstallFailed
                ELSE NoMessage,
     raised |-> CASE outcome = "ok" -> "no"
                  [] outcome = "snapError" -> "RuntimeError"
                  [] OTHER -> "other"]

\* _on_charm_config_changed (config_is_valid always answers True): the
\* result of the evaluation and the snapshot it leaves
config_changed_result(config, old, outcome) ==
    LET changed == config_changed(config, old)
        nothing == Result(<< >>, << >>, StatusKept, NoMessage, FALSE, FALSE)
    IN  IF changed = {} \/ ChannelKeys \cap changed = {}
        THEN [out |-> nothing, stored |-> old]
        ELSE LET r == snap_install_microcloud(config, old, outcome)
                 cmds == <<"snap_install_microcloud">>
             IN  [out |-> CASE r.raised = "RuntimeError" ->
                                Result(cmds, << >>, unit_blocked,
                                       FailedToApply, TRUE, FALSE)
                            [] r.raised = "other" ->
                                Result(cmds, << >>, r.status, r.msg,
                                       FALSE, TRUE)
                            [] OTHER ->
                                Result(cmds, << >>, r.status, r.msg,
                                       FALSE, FALSE),
                  stored |-> r.stored]

on_charm_config_changed(u) ==
    /\ ev = NoEvent
    /\ \E config \in Configs :
        \E outcome \in InstallOutcomes(config) :
          LET r == config_changed_result(config, stored[u], outcome)
              ran == r.out.cmds # << >>
          IN  /\ ~ran => outcome = "ok"
              /\ stored' = [stored EXCEPT ![u] = r.stored]
              /\ ev' = Event("config_changed", u, "-",
                             Inputs(u, NoInput, NoInput,
                                    IF ran THEN outcome ELSE NoInput,
                                    NoInput, NoInput, NoInput, NoRemoval,
                                    config, stored[u]),
                             r.out)
    /\ UNCHANGED <<leader, leaderChanges, planned, data, member>>

\* unit.status and the queue of start events after the evaluation ev'
Track ==
    /\ status' = IF ev'.u \in Acting /\ ev'.out.status # StatusKept
                 THEN [status EXCEPT ![ev'.u] = ev'.out.status]
                 ELSE status
    /\ pending' = IF ev'.u \in Acting /\ ev'.h = "start"
                  THEN [pending EXCEPT ![ev'.u] = ev'.out.defer]
                  ELSE pending

\* The peer protocol leaves the unit-local state where it is: what a
\* handler reads of it arrives as an input (pre) and what it does to it is
\* recorded in ev.out.
Untracked == UNCHANGED <<stored, status, pending>>

Next ==
    \/ HookEnds /\ Untracked
    \/ LeaderChange /\ Untracked
    \/ \E u \in Acting, v \in Units : Propagate(u, v) /\ Untracked
    \/ ScaleUp /\ Untracked
    \/ \E u \in Units : on_cluster_relation_created(u) /\ Untracked
    \/ \E u \in Acting : on_charm_start(u) /\ Untracked
    \/ \E u \in Acting : on_update_status(u) /\ Untracked
    \/ \E u \in Acting, v \in Units :
          on_cluster_relation_joined(u, v) /\ Untracked
    \/ \E u \in Acting : on_charm_stop(u) /\ Untracked

Spec == Init /\ [][Next]_vars

\* The configuration handler on its own: it reads and writes nothing of
\* the peer relation.
NextConfig ==
    \/ HookEnds /\ Untracked
    \/ \E u \in Acting :
          on_charm_config_changed(u) /\ Track /\ UNCHANGED pending

SpecConfig == Init /\ [][NextConfig]_vars

\* The handlers of the peer protocol with unit.status and the queue of
\* start events followed as state, under one leader and with the planned
\* size left as deployed.
NextStatus ==
    \/ HookEnds /\ Untracked
    \/ \E u \in Acting, v \in Units : Propagate(u, v) /\ Untracked
    \/ \E u \in Units :
          on_cluster_relation_created(u) /\ Track /\ UNCHANGED stored
    \/ \E u \in Acting : on_charm_start(u) /\ Track /\ UNCHANGED stored
    \/ \E u \in Acting : on_update_status(u) /\ Track /\ UNCHANGED stored
    \/ \E u \in Acting, v \in Units :
          on_cluster_relation_joined(u, v) /\ Track /\ UNCHANGED stored
    \/ \E u \in Acting : on_charm_stop(u) /\ Track /\ UNCHANGED stored

SpecStatus == Init /\ [][NextStatus]_vars

-----------------------------------------------------------------------------
(* Cluster formation when nothing goes wrong: one stable leader, every     *)
(* planned unit in the relation with its flag "False", every external      *)
(* command succeeding, and a start event queued for every unit.            *)

InitLive ==
    /\ leader \in Acting
    /\ leaderChanges = 0
    /\ planned \in {Cardinality(Acting), Cardinality(Units)}
    /\ data = [u \in Units |->
                 [b \in Units |->
                    IF planned = Cardinality(Units) \/ {u, b} \subseteq Acting
                    THEN "False" ELSE "absent"]]
    /\ member = [u \in Acting |-> "no"]
    /\ ev = NoEvent
    /\ stored = [u \in Acting |-> NoConfig]
    /\ status = [u \in Acting |-> unit_maintenance]
    /\ pending = [u \in Acting |-> TRUE]

\* The evaluation ev' of unit u met no failure: the snaps installed, the
\* probe answered as the membership of u stands, the cluster-forming
\* commands returned 0 and the initialization took in every unit.
Succeeds(u) ==
    /\ ev'.in.pre \in {"ok", NoInput}
    /\ ev'.in.tool \in {"ok", NoInput}
    /\ ev'.in.probe \in {NoInput, IF member[u] # "no" THEN "ok" ELSE "fail"}
    /\ "microcloud_init" \in Issued(ev'.out)
          => \A v \in Acting : member'[v] # "no"

\* the queued (first or deferred) start event of u is delivered
DeliverStart(u) ==
    /\ pending[u]
    /\ on_charm_start(u)
    /\ Track
    /\ Succeeds(u)
    /\ UNCHANGED stored

\* the periodic update-status of u
PeriodicStatus(u) ==
    /\ on_update_status(u)
    /\ Track
    /\ Succeeds(u)
    /\ UNCHANGED stored

PropagateAny == \E u \in Acting, v \in Units : Propagate(u, v) /\ Untracked

NextLive ==
    \/ HookEnds /\ Untracked
    \/ PropagateAny
    \/ \E u \in Acting : DeliverStart(u)
    \/ \E u \in Acting : PeriodicStatus(u)

\* Hooks end, bag writes reach the peers and queued start events are
\* delivered.  Units run their hooks independently of each other; the
\* model runs one evaluation at a time, so an evaluation of one unit
\* disables for a moment the delivery to another, and the fairness of
\* each delivery is stated as strong fairness.
Fairness ==
    /\ WF_vars(HookEnds /\ Untracked)
    /\ SF_vars(PropagateAny)
    /\ \A u \in Acting : SF_vars(DeliverStart(u))

SpecLive == InitLive /\ [][NextLive]_vars /\ Fairness

-----------------------------------------------------------------------------
(* Properties.  They are stated on ev, the evaluation that has just        *)
(* completed: ev.in is what the handler read, ev.out what it did, and the  *)
(* other variables hold the state the handler left.                        *)

ClusterForming == {"microcloud_init", "microceph_enable_rgw", "microcloud_add"}
RemovalCommands == {"lxc_cluster_remove", "microceph_cluster_remove",
                    "microovn_cluster_remove", "microcloud_cluster_remove"}
InitFailures == InitOutcomes \ {"ok"}

\* the evaluation called set_peer_data_str(bag, "clustered", "True")
WroteTrue(bag) ==
    \E i \in DOMAIN ev.out.sets : ev.out.sets[i] = SetCall(bag, "True")

\* the evaluating unit's own flag, as the handler left it
OwnAfter == get_peer_data_str(data, ev.u, ev.u)

\* C1: once one member has run "microcloud init --auto" successfully, no
\* other member ever runs it: a start evaluation issues the command only
\* if no other unit's initialization has succeeded.
C1_SingleInitializer ==
    (ev.h = "start" /\ "microcloud_init" \in Issued(ev.out))
        => \A v \in Acting \ {ev.u} : member[v] # "init"

\* C2: no handler changes a member's own clustered value from "True" to
\* anything else: if the handler read "True" it leaves "True".
C2_FlagMonotone ==
    (ev # NoEvent /\ ev.in.own = "True") => OwnAfter = "True"

C4_PeerTrueBlocksInit ==
    (ev.h = "start" /\ ev.in.peerTrue)
        => "microcloud_init" \notin Issued(ev.out)

\* a leader with own flag "False" reads a peer's "True"; the probe fails
C4_Witness ==
    /\ ev.h = "start"
    /\ ev.in.peerTrue
    /\ ev.in.lead
    /\ ev.in.own = "False"
    /\ ev.in.npeers = 2
    /\ ev.in.probe = "fail"

\* C5 (as claimed): on a stop request, if the inventory holds a workload
\* located on this member, no removal command is issued and the status is
\* Blocked, whatever the rest of the state.
C5_Original ==
    (ev.h = "stop" /\ ev.in.inv = "atSelf")
        => /\ Issued(ev.out) \cap RemovalCommands = {}
           /\ ev.out.status = unit_blocked

\* C5 (amended): on a stop request with a workload located on this member,
\* no removal command is issued; the status is Blocked when the member's
\* own flag is "True", and when it is not the handler issues no command at
\* all and leaves the status as it was.
C5_RefusedWhenOccupied ==
    (ev.h = "stop" /\ ev.in.inv = "atSelf")
        => /\ Issued(ev.out) \cap RemovalCommands = {}
           /\ ev.in.own = "True"
                 => (ev.out.cmds = <<"lxc_list">>
                     /\ ev.out.status = unit_blocked)
           /\ ev.in.own # "True"
                 => (ev.out.cmds = << >> /\ ev.out.status = StatusKept)

C5_Witness ==
    /\ ev.h = "stop"
    /\ ev.in.inv = "atSelf"
    /\ ev.in.own = "True"
    /\ ev.out.status = unit_blocked

\* C6: in a start or update-status evaluation, if the health probe would
\* succeed, the member's own flag is left "True" and no cluster-forming
\* command is issued.
C6_ProbeOverrides ==
    (ev.h \in {"start", "update_status"} /\ ev.in.probe = "ok")
        => /\ OwnAfter = "True"
           /\ Issued(ev.out) \cap ClusterForming = {}

\* C7: when the initialization command or the enable command that follows
\* it fails or times out, the own flag stays "False", the status is Blocked
\* and the start event is deferred.
C7_InitFailureDeferred ==
    (ev.h = "start" /\ ev.in.tool \in InitFailures)
        => /\ OwnAfter = "False"
           /\ ev.out.status = unit_blocked
           /\ ev.out.defer

\* C8 (as claimed): when the leader, flag "True", gets relation-joined for
\* a new unit it runs the add command once, and the flag of a unit taken in
\* by the add command is never set "True" by that unit itself.
C8_Original ==
    /\ (ev.h = "relation_joined" /\ ev.in.lead /\ ev.in.own = "True")
          => ev.out.cmds = <<"microcloud_add">>
    /\ \A c \in Acting :
          (ev # NoEvent /\ member[c] = "added" /\ ev.u = c
             /\ ev.in.own # "True")
              => OwnAfter # "True"

\* C8 (amended): when the leader, flag "True", gets relation-joined for a
\* new unit it runs the add command once and writes nothing to the peer
\* bag; the flag of a unit taken in by the add command is set "True" only
\* by that unit itself, after its own health probe (or its own
\* initialization) has succeeded.
C8_JoinFlow ==
    /\ (ev.h = "relation_joined" /\ ev.in.lead /\ ev.in.own = "True")
          => (ev.out.cmds = <<"microcloud_add">> /\ ev.out.sets = << >>)
    /\ \A c \in Acting :
          (ev # NoEvent /\ member[c] = "added" /\ WroteTrue(c))
              => /\ ev.u = c
                 /\ \/ ev.h = "update_status" /\ ev.in.probe = "ok"
                    \/ ev.h = "start" /\ ev.in.peerTrue
                          /\ ev.in.probe = "ok"
                    \/ ev.h = "start" /\ ev.in.tool = "ok"

\* a unit taken in by the leader's add command sets its own flag
C8_Witness ==
    /\ ev.h \in {"start", "update_status"}
    /\ member[ev.u] = "added"
    /\ ev.in.own = "False"
    /\ WroteTrue(ev.u)

\* C9: every set_peer_data_str call of a handler targets the evaluating
\* unit's own bag.
C9_OwnEntryOnly ==
    \A i \in DOMAIN ev.out.sets : ev.out.sets[i].bag = ev.u

\* a leader that sees both peers initializes and writes its own flag
C9_Witness ==
    /\ ev.h = "start"
    /\ ev.in.npeers = 2
    /\ ev.in.tool = "ok"
    /\ ev.out.sets # << >>

\* C10 (as claimed): evaluating the start decision again with the same
\* inputs and tool responses issues no cluster-forming command that the
\* first evaluation issued.
C10_Original ==
    ev.h = "start" =>
        \A tool \in InitOutcomes :
            (ev.in.tool \in {tool, NoInput})
                => Issued(ev.out)
                     \cap Issued(start_result(ev.u, ev.in.pre, ev.in.probe,
                                              tool))
                     \cap ClusterForming = {}

\* C10 (amended): a second start evaluation that reads what the first one
\* read decides as the first one did; and after a successful
\* initialization a re-delivered start event on that member issues no
\* second initialization command, whatever the tools answer.
C10_Idempotent ==
    ev.h = "start" =>
        /\ OwnAfter = ev.in.own
              => \A tool \in InitOutcomes :
                    (ev.in.tool \in {tool, NoInput})
                        => start_result(ev.u, ev.in.pre, ev.in.probe, tool)
                             = ev.out
        /\ ev.in.tool = "ok"
              => \A pre \in {"ok", "installFailed"}, probe \in ToolOutcomes,
                    tool \in InitOutcomes :
                      "microcloud_init"
                          \notin Issued(start_result(ev.u, pre, probe, tool))

C10_Witness ==
    /\ ev.h = "start"
    /\ ev.in.tool = "ok"
    /\ OwnAfter = "True"

\* C11: for every external command failure a handler surfaces, the status
\* message the handler leaves after a non-zero exit differs from the one
\* it leaves when the same command times out.
C11_FailureKindsDistinct ==
    /\ (ev.h = "start" /\ ev.in.tool = "initFail")
          => ev.out.msg # start_result(ev.u, ev.in.pre, ev.in.probe,
                                       "initTimeout").msg
    /\ (ev.h = "start" /\ ev.in.tool = "rgwFail")
          => ev.out.msg # start_result(ev.u, ev.in.pre, ev.in.probe,
                                       "rgwTimeout").msg
    /\ (ev.h = "start" /\ ev.in.peerTrue /\ ev.in.probe = "fail")
          => ev.out.msg # start_result(ev.u, ev.in.pre, "timeout", "ok").msg
    /\ (ev.h = "update_status" /\ ev.in.probe = "fail")
          => ev.out.msg # update_status_result(ev.u, "timeout").msg
    /\ (ev.h = "relation_joined" /\ ev.in.tool = "fail")
          => ev.out.msg # relation_joined_result(ev.u, ev.arg, "timeout").msg
    /\ (ev.h = "stop" /\ ev.in.rm.kind = "fail")
          => ev.out.msg # stop_result(ev.u, ev.in.inv, ev.in.rm.ceph,
                                      ev.in.rm.ovn, ev.in.rm.nOk,
                                      "timeout").msg

\* the place of a removal command in the order compute, storage, network,
\* clustering tool
RemovalRank(cmd) ==
    CASE cmd = "lxc_cluster_remove" -> 1
      [] cmd = "microceph_cluster_remove" -> 2
      [] cmd = "microovn_cluster_remove" -> 3
      [] OTHER -> 4

C13_NoEscape ==
    ev # NoEvent => ~ev.out.raised

\* the three-member scenario: the leader, own flag "False", reads two peers,
\* both "False", with three units planned
ThreeMemberScenario ==
    /\ ev.h = "start"
    /\ ev.in.lead
    /\ ev.in.own = "False"
    /\ ev.in.npeers = 2
    /\ ev.in.peerFalse
    /\ planned = 3

GuardRead ==
    /\ ev.in.lead
    /\ ev.in.own = "False"
    /\ ev.in.peerFalse
    /\ ev.in.npeers + 1 = planned

C16_LeaderOnly ==
    /\ Issued(ev.out) \cap {"microcloud_init", "microcloud_add"} # {}
          => ev.in.lead
    /\ "microcloud_add" \in Issued(ev.out)
          => /\ ev.h = "relation_joined"
             /\ ev.in.lead
             /\ ev.in.own = "True"
             /\ ev.arg # ev.u

\* a clustered non-leader gets relation-joined and issues nothing
C16_Witness ==
    /\ ev.h = "relation_joined"
    /\ ~ev.in.lead
    /\ ev.in.own = "True"
    /\ ev.out.cmds = << >>

\* C17: a start evaluation that initializes writes the own flag "True" only
\* when both the initialization and the enable command succeeded, and it
\* issues the storage enable command only when storage is configured as
\* enabled.
C17_EnableOnlyWhenConfigured ==
    (ev.h = "start" /\ "microcloud_init" \in Issued(ev.out))
        => /\ WroteTrue(ev.u)
                 => (ev.in.tool = "ok"
                     /\ ev.out.cmds = <<"microcloud_init",
                                        "microceph_enable_rgw">>)
           /\ "microceph_enable_rgw" \in Issued(ev.out)
                 => ev.in.microceph = "enabled"

\* C18: when the add command fails or times out in a relation-joined
\* evaluation, nothing is written to the bag, the status is left as it
\* was and the event is not deferred.
C18_AddFailureNoChange ==
    (ev.h = "relation_joined" /\ ev.in.tool \in {"fail", "timeout"})
        => /\ ev.out.sets = << >>
           /\ ev.out.status = StatusKept
           /\ ~ev.out.defer

\* C19: an update-status evaluation whose probe succeeds leaves the own
\* flag "True" and the status Active, whatever the state before; one whose
\* probe fails or times out leaves the status Blocked, writes nothing to
\* the bag, issues nothing but the probe and does not defer.
C19_UpdateStatus ==
    ev.h = "update_status"
        => /\ ev.out.cmds = <<"lxc_cluster_list">>
           /\ ~ev.out.defer
           /\ ev.in.probe = "ok"
                 => (OwnAfter = "True" /\ ev.out.status = unit_active)
           /\ ev.in.probe # "ok"
                 => /\ ev.out.status = unit_blocked
                    /\ ev.out.sets = << >>
                    /\ OwnAfter = ev.in.own

\* the probe fails on a unit whose flag is "True"
C19_Witness ==
    /\ ev.h = "update_status"
    /\ ev.in.probe = "fail"
    /\ ev.in.own = "True"
    /\ ev.out.status = unit_blocked

\* C20: a stop evaluation queries the inventory and issues removal
\* commands only if the own flag reads "True"; otherwise it issues no
\* command, writes nothing, and leaves the status as it was.
C20_StopOnlyWhenClustered ==
    ev.h = "stop"
        => /\ ev.out.cmds # << >> => ev.in.own = "True"
           /\ ev.in.own # "True"
                 => ev.out = Result(<< >>, << >>, StatusKept, NoMessage,
                                    FALSE, FALSE)

\* a member of the cluster whose flag still reads "False" is stopped
C20_Witness ==
    /\ ev.h = "stop"
    /\ ev.in.own = "False"
    /\ member[ev.u] # "no"
    /\ ev.out.cmds = << >>

\* C21: a removal that runs to its end has issued the storage removal
\* command if and only if the storage subsystem is enabled, and the
\* network removal command if and only if the network subsystem is
\* enabled.
C21_RemovalIffEnabled ==
    (ev.h = "stop" /\ "microcloud_cluster_remove" \in Issued(ev.out)
       /\ ev.in.rm.kind = NoInput)
        => /\ "microceph_cluster_remove" \in Issued(ev.out)
                 <=> ev.in.microceph = "enabled"
           /\ "microovn_cluster_remove" \in Issued(ev.out)
                 <=> ev.in.microovn = "enabled"

\* the channel options of the evaluation equal the snapshot it read
ChannelsAsStored ==
    \A k \in ChannelKeys :
        k \in DOMAIN ev.in.old /\ ev.in.config[k] = ev.in.old[k]

\* C22: a configuration change that leaves the channel options as stored
\* installs nothing and leaves the snapshot alone, whatever the toggles;
\* an installation runs only when some channel option differs from the
\* snapshot; the snapshot changes only by a successful installation, and a
\* failed installation leaves it unchanged, the status Blocked and the
\* event deferred.
C22_ReinstallOnChannelChange ==
    ev.h = "config_changed"
        => /\ ChannelsAsStored
                 => /\ ev.out.cmds = << >>
                    /\ stored[ev.u] = ev.in.old
           /\ ev.out.cmds # << >> => ~ChannelsAsStored
           /\ stored[ev.u] # ev.in.old => ev.in.tool = "ok"
           /\ ev.in.tool \notin {"ok", NoInput}
                 => /\ stored[ev.u] = ev.in.old
                    /\ ev.out.status = unit_blocked
                    /\ ev.out.defer

\* C24: in every state a unit whose status is Active has its own clustered
\* flag "True".
C24_ActiveImpliesClustered ==
    \A u \in Acting :
        status[u] = unit_active => get_peer_data_str(data, u, u) = "True"

\* every followed unit has its own flag "True" and status Active
AllClustered ==
    \A u \in Acting :
        /\ get_peer_data_str(data, u, u) = "True"
        /\ status[u] = unit_active

\* C23: with a stable leader, every planned unit present with flag "False",
\* every command succeeding, writes propagating and queued start events
\* delivered, every unit eventually has its own flag "True" and status
\* Active, and stays so: no unit waits forever.
C23_EventuallyClustered == <>[]AllClustered

\* the non-leader has become Active by its re-delivered start event
C23_Witness ==
    /\ AllClustered
    /\ ev.h = "start"
    /\ ~ev.in.lead
    /\ ev.in.peerTrue
    /\ \A u \in Acting : ~pending[u]

====
